---- MODULE Spec2Model ----
(***************************************************************************)
(* Model of src/payment-flows/applepay/utils.js: the pure functions that   *)
(* turn a checkout session into an Apple Pay payment request and validate  *)
(* the shipping contact returned by the wallet.                            *)
(*                                                                         *)
(* JavaScript values                                                       *)
(*   string     a sequence of one-character strings, "" is << >>           *)
(*   undefined  the sequence <<"undefined">> (no one-character element)    *)
(*   null       the sequence <<"null">>                                    *)
(*   object     a record; an absent object is NoObject, {} is EmptyObject  *)
(*   array      a sequence; an array argument that may be undefined is     *)
(*              Array(items) or NoObject                                   *)
(* Identifiers the code only writes (labels, network names, capability     *)
(* names, error fields) are plain strings.                                 *)
(***************************************************************************)
EXTENDS Integers, Sequences, FiniteSets, TLC

VARIABLES fn, arg, engine, ret

vars == <<fn, arg, engine, ret>>

(***************************************************************************)
(* Bounds of the model.                                                    *)
(***************************************************************************)
MaxAmountLen == 4
MaxIssuers == 3
MaxMethods == 3
MaxCartMethods == 2

(***************************************************************************)
(* JavaScript value helpers.                                               *)
(***************************************************************************)
Undefined == <<"undefined">>
Null == <<"null">>
NoObject == [absent |-> TRUE]
EmptyObject == [keys |-> {}]
Array(items) == [items |-> items]

\* param = [] : the default of an undefined array argument.
OrEmpty(array) == IF array = NoObject THEN <<>> ELSE array.items

\* ToBoolean of a string-or-undefined-or-null value.
Truthy(v) == v # Undefined /\ v # Null /\ v # <<>>

\* ToBoolean of an object-or-undefined value.
TruthyObject(o) == o # NoObject

\* a || b on string-or-undefined values.
OrElse(a, b) == IF Truthy(a) THEN a ELSE b

\* All sequences over S of length 0..n.
SeqsUpTo(S, n) == UNION {[1..k -> S] : k \in 0..n}

UpperLetters == <<"A","B","C","D","E","F","G","H","I","J","K","L","M",
                  "N","O","P","Q","R","S","T","U","V","W","X","Y","Z">>
LowerLetters == <<"a","b","c","d","e","f","g","h","i","j","k","l","m",
                  "n","o","p","q","r","s","t","u","v","w","x","y","z">>

toLowerCase(s) ==
    [i \in 1..Len(s) |->
        IF \E k \in 1..26 : UpperLetters[k] = s[i]
        THEN LowerLetters[CHOOSE k \in 1..26 : UpperLetters[k] = s[i]]
        ELSE s[i]]

toUpperCase(s) ==
    [i \in 1..Len(s) |->
        IF \E k \in 1..26 : LowerLetters[k] = s[i]
        THEN UpperLetters[CHOOSE k \in 1..26 : LowerLetters[k] = s[i]]
        ELSE s[i]]

\* s.replace(/_/g, '')
stripUnderscores(s) == SelectSeq(s, LAMBDA c : c # "_")

(***************************************************************************)
(* isZeroAmount: parseFloat(value).toFixed(2) === '0.00'                   *)
(***************************************************************************)
DigitChars == <<"0","1","2","3","4","5","6","7","8","9">>

IsDigit(c) == \E d \in 1..10 : DigitChars[d] = c

DigitValue(c) == (CHOOSE d \in 1..10 : DigitChars[d] = c) - 1

RECURSIVE Pow10(_)
Pow10(n) == IF n = 0 THEN 1 ELSE 10 * Pow10(n - 1)

\* Length of the longest prefix of s made of decimal digits.
RECURSIVE DigitPrefixLen(_)
DigitPrefixLen(s) ==
    IF s # <<>> /\ IsDigit(Head(s)) THEN 1 + DigitPrefixLen(Tail(s)) ELSE 0

RECURSIVE DigitsToNat(_)
DigitsToNat(s) ==
    IF s = <<>> THEN 0
    ELSE 10 * DigitsToNat(SubSeq(s, 1, Len(s) - 1)) + DigitValue(s[Len(s)])

NaN == [nan |-> TRUE, neg |-> FALSE, num |-> 0, scale |-> 0]

\* parseFloat: the longest prefix  [+-]? digits* (. digits*)?  holding at
\* least one digit is the number num / 10^scale; without one the result is
\* NaN.  The rest of the string is ignored.  (White space, exponents and
\* "Infinity" do not occur over AmountChars.)
parseFloat(value) ==
    LET signed   == value # <<>> /\ Head(value) \in {"-", "+"}
        neg      == value # <<>> /\ Head(value) = "-"
        body     == IF signed THEN Tail(value) ELSE value
        intLen   == DigitPrefixLen(body)
        afterInt == SubSeq(body, intLen + 1, Len(body))
        hasDot   == afterInt # <<>> /\ Head(afterInt) = "."
        fracLen  == IF hasDot THEN DigitPrefixLen(Tail(afterInt)) ELSE 0
        intPart  == SubSeq(body, 1, intLen)
        fracPart == IF hasDot THEN SubSeq(Tail(afterInt), 1, fracLen) ELSE <<>>
    IN  IF value = Undefined \/ value = Null \/ intLen + fracLen = 0
        THEN NaN
        ELSE [nan |-> FALSE, neg |-> neg,
              num |-> DigitsToNat(intPart \o fracPart), scale |-> fracLen]

RECURSIVE NatToDigits(_)
NatToDigits(n) ==
    IF n < 10 THEN <<DigitChars[n + 1]>>
    ELSE NatToDigits(n \div 10) \o <<DigitChars[(n % 10) + 1]>>

\* Number.prototype.toFixed(2): "NaN" for NaN; otherwise a "-" when x < 0
\* (not for -0), then n / 100 written with two decimals, n the integer
\* nearest to |x| * 100 and the larger one on a tie.  The binary value of a
\* short decimal lies on the same side of 0.005 as the decimal itself
\* (0.005 is stored slightly above), so whether n = 0 is decided exactly.
toFixed2(x) ==
    IF x.nan THEN <<"N", "a", "N">>
    ELSE LET n    == (2 * 100 * x.num + Pow10(x.scale)) \div (2 * Pow10(x.scale))
             sign == IF x.neg /\ x.num > 0 THEN <<"-">> ELSE <<>>
         IN  sign \o NatToDigits(n \div 100) \o <<".">>
                  \o <<DigitChars[((n % 100) \div 10) + 1]>>
                  \o <<DigitChars[(n % 10) + 1]>>

\* Variant of isZeroAmount that compares the parsed number itself with zero.
isZeroAmountNoRounding(value) ==
    LET x == parseFloat(value) IN ~x.nan /\ x.num = 0

\* parseFloat(value).toFixed(2) === '0.00'
isZeroAmount(value) == toFixed2(parseFloat(value)) = <<"0", ".", "0", "0">>

(***************************************************************************)
(* getSupportedNetworksFromIssuers                                         *)
(***************************************************************************)
\* Variant of validNetworks with an entry for China UnionPay.
validNetworksWithUnionPay ==
    << [key |-> <<"d", "i", "s", "c", "o", "v", "e", "r">>,
        network |-> "discover"],
       [key |-> <<"v", "i", "s", "a">>,
        network |-> "visa"],
       [key |-> <<"m", "a", "s", "t", "e", "r", "c", "a", "r", "d">>,
        network |-> "masterCard"],
       [key |-> <<"a", "m", "e", "x">>,
        network |-> "amex"],
       [key |-> <<"c", "b", "_", "n", "a", "t", "i", "o", "n", "a", "l", "e">>,
        network |-> "cartesBancaires"],
       [key |-> <<"m", "a", "e", "s", "t", "r", "o">>,
        network |-> "maestro"],
       [key |-> <<"j", "c", "b">>,
        network |-> "jcb"],
       [key |-> <<"c", "h", "i", "n", "a", "u", "n", "i", "o", "n", "p", "a", "y">>,
        network |-> "chinaUnionPay"] >>

\* The validNetworks object literal, in Object.keys order.
validNetworks ==
    << [key |-> <<"d", "i", "s", "c", "o", "v", "e", "r">>,
        network |-> "discover"],
       [key |-> <<"v", "i", "s", "a">>,
        network |-> "visa"],
       [key |-> <<"m", "a", "s", "t", "e", "r", "c", "a", "r", "d">>,
        network |-> "masterCard"],
       [key |-> <<"a", "m", "e", "x">>,
        network |-> "amex"],
       [key |-> <<"c", "b", "_", "n", "a", "t", "i", "o", "n", "a", "l", "e">>,
        network |-> "cartesBancaires"],
       [key |-> <<"m", "a", "e", "s", "t", "r", "o">>,
        network |-> "maestro"],
       [key |-> <<"j", "c", "b">>,
        network |-> "jcb"] >>

\* Object.keys(validNetworks).includes(network)
hasKey(network) == \E k \in 1..Len(validNetworks) : validNetworks[k].key = network

\* validNetworks[network]
lookupNetwork(network) ==
    validNetworks[CHOOSE k \in 1..Len(validNetworks) : validNetworks[k].key = network].network

\* Variant of validateIssuers that puts the network in front (unshift).
validateIssuersPrepending(validIssuers, issuer) ==
    LET network == stripUnderscores(toLowerCase(issuer))
    IN  IF hasKey(network)
        THEN <<lookupNetwork(network)>> \o validIssuers
        ELSE validIssuers

\* The forEach callback: validIssuers after the callback ran on issuer.
validateIssuers(validIssuers, issuer) ==
    LET network == stripUnderscores(toLowerCase(issuer))
    IN  IF hasKey(network)
        THEN Append(validIssuers, lookupNetwork(network))
        ELSE validIssuers

RECURSIVE forEachIssuer(_, _)
forEachIssuer(validIssuers, issuers) ==
    IF issuers = <<>> THEN validIssuers
    ELSE forEachIssuer(validateIssuers(validIssuers, Head(issuers)), Tail(issuers))

getSupportedNetworksFromIssuers(issuersArg) ==
    LET issuers == OrEmpty(issuersArg)
    IN  forEachIssuer(<<>>, issuers)

(***************************************************************************)
(* getShippingContactFromAddress                                           *)
(***************************************************************************)
getShippingContactFromAddress(shippingAddress) ==
    IF ~TruthyObject(shippingAddress)
    THEN [givenName |-> <<>>, familyName |-> <<>>, addressLines |-> <<>>,
          locality |-> <<>>, administrativeArea |-> <<>>, postalCode |-> <<>>,
          country |-> <<>>, countryCode |-> <<>>]
    ELSE [givenName          |-> shippingAddress.firstName,
          familyName         |-> shippingAddress.lastName,
          addressLines       |-> <<shippingAddress.line1, shippingAddress.line2>>,
          locality           |-> shippingAddress.city,
          administrativeArea |-> shippingAddress.state,
          postalCode         |-> shippingAddress.postalCode,
          country            |-> shippingAddress.country,
          countryCode        |-> shippingAddress.country]

(***************************************************************************)
(* getApplePayShippingMethods                                              *)
(***************************************************************************)
\* The comparator handed to sort: it reads its first argument only.
comparefn(method, other) == IF method.selected THEN -1 ELSE 0

\* a with the element at index from moved to index to (to <= from).
MoveTo(a, from, to) ==
    [i \in 1..Len(a) |->
        IF i < to \/ i > from THEN a[i]
        ELSE IF i = to THEN a[from]
        ELSE a[i - 1]]

\* Binary insertion as in V8 7.0 and later (the short-array path of its
\* TimSort): the comparator is called as comparefn(pivot, a[mid]).
RECURSIVE BinaryInsertPos(_, _, _, _)
BinaryInsertPos(a, pivot, left, right) ==
    IF left >= right THEN left
    ELSE LET mid == left + ((right - left) \div 2)
         IN  IF comparefn(pivot, a[mid]) < 0
             THEN BinaryInsertPos(a, pivot, left, mid)
             ELSE BinaryInsertPos(a, pivot, mid + 1, right)

\* Linear insertion as in V8 before 7.0 (arrays of at most 10 elements):
\* the comparator is called as comparefn(a[j], element) and an element moves
\* only past entries that compare greater than 0.
RECURSIVE LinearInsertPos(_, _, _)
LinearInsertPos(a, element, j) ==
    IF j >= 1 /\ comparefn(a[j], element) > 0
    THEN LinearInsertPos(a, element, j - 1)
    ELSE j + 1

Engines == {"binaryInsertion", "linearInsertion"}

RECURSIVE InsertionSort(_, _, _)
InsertionSort(a, start, eng) ==
    IF start > Len(a) THEN a
    ELSE LET pos == IF eng = "binaryInsertion"
                    THEN BinaryInsertPos(a, a[start], 1, start)
                    ELSE LinearInsertPos(a, a[start], start - 1)
         IN  InsertionSort(MoveTo(a, start, pos), start + 1, eng)

\* Array.prototype.sort with a comparator that is not consistent
\* (comparefn(a, a) < 0 for a selected a): ECMA-262 leaves the order to the
\* implementation, so the result depends on the engine eng.
ArraySort(a, eng) == InsertionSort(a, 2, eng)

ZeroAmountString == <<"0", ".", "0", "0">>

mapMethod(method) ==
    [amount     |-> IF TruthyObject(method.amount)
                    THEN OrElse(method.amount.currencyValue, ZeroAmountString)
                    ELSE ZeroAmountString,
     detail     |-> method.type,
     identifier |-> OrElse(method.id, <<>>),
     label      |-> method.label]

\* The sort works on the spread copy of shippingMethods.
getApplePayShippingMethods(shippingMethodsArg, eng) ==
    LET shippingMethods == OrEmpty(shippingMethodsArg)
        sorted == ArraySort(shippingMethods, eng)
    IN  [i \in 1..Len(sorted) |-> mapMethod(sorted[i])]

(***************************************************************************)
(* getMerchantCapabilities                                                 *)
(***************************************************************************)
\* supportedNetworks = [] is the default of an undefined argument.
getMerchantCapabilities(supportedNetworksArg) ==
    LET supportedNetworks == OrEmpty(supportedNetworksArg)
        merchantCapabilities == <<"supports3DS", "supportsCredit", "supportsDebit">>
    IN  IF \E i \in 1..Len(supportedNetworks) : supportedNetworks[i] = "chinaUnionPay"
        THEN Append(merchantCapabilities, "supportsEMV")
        ELSE merchantCapabilities

(***************************************************************************)
(* createApplePayRequest                                                   *)
(***************************************************************************)
\* (shippingMethods || []).find(method => method.selected)
findSelected(shippingMethods) ==
    LET list == OrEmpty(shippingMethods)
    IN  IF \E i \in 1..Len(list) : list[i].selected
        THEN list[CHOOSE i \in 1..Len(list) :
                    list[i].selected /\ \A j \in 1..(i - 1) : ~list[j].selected]
        ELSE NoObject

\* Variant of requestShippingContact without the givenName test.
requestShippingContactUnchecked(shippingContact) == shippingContact

\* shippingContact?.givenName ? shippingContact : {}
requestShippingContact(shippingContact) ==
    IF Truthy(shippingContact.givenName) THEN shippingContact ELSE EmptyObject

\* Variant of lineItems without the pickup exception.
lineItemsNoPickup(subtotalValue, taxValue, shippingValue, isPickup) ==
    (IF Truthy(subtotalValue) /\ ~isZeroAmount(subtotalValue)
     THEN <<[label |-> "Subtotal", amount |-> subtotalValue]>> ELSE <<>>)
    \o
    (IF Truthy(taxValue) /\ ~isZeroAmount(taxValue)
     THEN <<[label |-> "Sales Tax", amount |-> taxValue]>> ELSE <<>>)
    \o
    (IF Truthy(shippingValue) /\ ~isZeroAmount(shippingValue)
     THEN <<[label |-> "Shipping", amount |-> shippingValue]>> ELSE <<>>)

\* The three pushes onto result.lineItems.
lineItems(subtotalValue, taxValue, shippingValue, isPickup) ==
    (IF Truthy(subtotalValue) /\ ~isZeroAmount(subtotalValue)
     THEN <<[label |-> "Subtotal", amount |-> subtotalValue]>> ELSE <<>>)
    \o
    (IF Truthy(taxValue) /\ ~isZeroAmount(taxValue)
     THEN <<[label |-> "Sales Tax", amount |-> taxValue]>> ELSE <<>>)
    \o
    (IF Truthy(shippingValue) /\ (~isZeroAmount(shippingValue) \/ isPickup)
     THEN <<[label |-> "Shipping", amount |-> shippingValue]>> ELSE <<>>)

createApplePayRequest(countryCode, order, eng) ==
    LET session == order.checkoutSession
        isShippingAddressRequired == session.flags.isShippingAddressRequired
        allowedCardIssuers == session.allowedCardIssuers
        amounts         == session.cart.amounts
        shippingValue   == amounts.shippingAndHandling.currencyValue
        taxValue        == amounts.tax.currencyValue
        subtotalValue   == amounts.subtotal.currencyValue
        currencyCode    == amounts.total.currencyCode
        totalValue      == amounts.total.currencyValue
        shippingAddress == session.cart.shippingAddress
        shippingMethods == session.cart.shippingMethods
        supportedNetworks       == getSupportedNetworksFromIssuers(allowedCardIssuers)
        shippingContact         == getShippingContactFromAddress(shippingAddress)
        applePayShippingMethods == getApplePayShippingMethods(shippingMethods, eng)
        merchantCapabilities    == getMerchantCapabilities(Array(supportedNetworks))
        selectedShippingMethod  == findSelected(shippingMethods)
        isPickup == /\ TruthyObject(selectedShippingMethod)
                    /\ selectedShippingMethod.type = <<"P", "I", "C", "K", "U", "P">>
    IN  [countryCode          |-> countryCode,
         currencyCode         |-> currencyCode,
         merchantCapabilities |-> merchantCapabilities,
         supportedNetworks    |-> supportedNetworks,
         requiredBillingContactFields  |-> <<"postalAddress", "name", "phone">>,
         requiredShippingContactFields |->
             IF isShippingAddressRequired
             THEN <<"postalAddress", "name", "phone", "email">>
             ELSE <<"name", "phone", "email">>,
         shippingContact |-> requestShippingContact(shippingContact),
         shippingMethods |-> applePayShippingMethods,
         lineItems       |-> lineItems(subtotalValue, taxValue, shippingValue, isPickup),
         total           |-> [label |-> "Total", amount |-> totalValue, type |-> "final"]]

(***************************************************************************)
(* validateShippingContact                                                 *)
(***************************************************************************)
\* COUNTRY of @paypal/sdk-constants: every ISO code is a key mapped to
\* itself; four of its entries stand for the table.
CountryCodes == {<<"U", "S">>, <<"F", "R">>, <<"D", "E">>, <<"G", "B">>}

COUNTRY == [code \in CountryCodes |-> code]

\* contact?.field
OptField(contact, field) ==
    IF TruthyObject(contact) THEN contact[field] ELSE Undefined

\* Variant of resolveCountry that looks the code up as written.
resolveCountryCaseSensitive(contact) ==
    IF Truthy(OptField(contact, "countryCode"))
    THEN IF contact.countryCode \in DOMAIN COUNTRY
         THEN COUNTRY[contact.countryCode]
         ELSE Undefined
    ELSE Null

\* contact?.countryCode ? COUNTRY[contact.countryCode.toUpperCase()] : null
\* (a key missing from COUNTRY reads as undefined).
resolveCountry(contact) ==
    IF Truthy(OptField(contact, "countryCode"))
    THEN IF toUpperCase(contact.countryCode) \in DOMAIN COUNTRY
         THEN COUNTRY[toUpperCase(contact.countryCode)]
         ELSE Undefined
    ELSE Null

ContactError(field, message) ==
    [code |-> "shippingContactInvalid", contactField |-> field, message |-> message]

\* Variant of validateShippingContact that requires a state for every country.
validateShippingContactStateAlways(contact) ==
    LET country_code == resolveCountry(contact)
        errors ==
            (IF ~Truthy(OptField(contact, "locality"))
             THEN <<ContactError("locality", "City is invalid")>> ELSE <<>>)
            \o
            (IF ~Truthy(country_code)
             THEN <<ContactError("countryCode", "Country code is invalid")>> ELSE <<>>)
            \o
            (IF ~Truthy(OptField(contact, "administrativeArea"))
             THEN <<ContactError("administrativeArea", "State is invalid")>> ELSE <<>>)
            \o
            (IF ~Truthy(OptField(contact, "postalCode"))
             THEN <<ContactError("postalCode", "Postal code is invalid")>> ELSE <<>>)
    IN  [errors |-> errors,
         shipping_address |->
             [city         |-> OptField(contact, "locality"),
              state        |-> OptField(contact, "administrativeArea"),
              country_code |-> country_code,
              postal_code  |-> OptField(contact, "postalCode")]]

validateShippingContact(contact) ==
    LET country_code == resolveCountry(contact)
        errors ==
            (IF ~Truthy(OptField(contact, "locality"))
             THEN <<ContactError("locality", "City is invalid")>> ELSE <<>>)
            \o
            (IF ~Truthy(country_code)
             THEN <<ContactError("countryCode", "Country code is invalid")>> ELSE <<>>)
            \o
            (IF country_code = COUNTRY[<<"U", "S">>]
                /\ ~Truthy(OptField(contact, "administrativeArea"))
             THEN <<ContactError("administrativeArea", "State is invalid")>> ELSE <<>>)
            \o
            (IF ~Truthy(OptField(contact, "postalCode"))
             THEN <<ContactError("postalCode", "Postal code is invalid")>> ELSE <<>>)
    IN  [errors |-> errors,
         shipping_address |->
             [city         |-> OptField(contact, "locality"),
              state        |-> OptField(contact, "administrativeArea"),
              country_code |-> country_code,
              postal_code  |-> OptField(contact, "postalCode")]]

(***************************************************************************)
(* Inputs.                                                                 *)
(***************************************************************************)
AmountChars == {"0", "1", "5", ".", "-", "a"}

ExampleAmounts == {<<"0", ".", "0", "0">>, <<"0", ".", "0", "0", "1">>, <<"0", ".", "0", "0", "4">>, <<"0", ".", "0", "0", "5">>, <<"-", "0", ".", "0", "0", "1">>, <<"5", ".", "0", "0">>, <<"a", "b", "c">>}

AmountStrings == SeqsUpTo(AmountChars, MaxAmountLen) \cup ExampleAmounts

IssuerOptions ==
    {<<"V", "I", "S", "A">>, <<"M", "a", "s", "t", "e", "r", "_", "C", "a", "r", "d">>, <<"u", "n", "k", "n", "o", "w", "n">>, <<"C", "B", "_", "N", "A", "T", "I", "O", "N", "A", "L", "E">>, <<"c", "b", "n", "a", "t", "i", "o", "n", "a", "l", "e">>, <<"J", "C", "B">>,
     <<"a", "m", "e", "x">>, <<"D", "i", "s", "c", "o", "v", "e", "r">>, <<"M", "A", "E", "S", "T", "R", "O">>, <<"c", "h", "i", "n", "a", "_", "u", "n", "i", "o", "n", "_", "p", "a", "y">>}

IssuerLists == {Array(l) : l \in SeqsUpTo(IssuerOptions, MaxIssuers)} \cup {NoObject}

Method(id, label, amount, type, selected) ==
    [id |-> id, label |-> label, amount |-> amount, type |-> type, selected |-> selected]

Amount(currencyValue) == [currencyCode |-> <<"U", "S", "D">>, currencyValue |-> currencyValue]

ShippingMethodOptions ==
    {Method(<<"a">>, <<"A">>, Amount(<<"5", ".", "0", "0">>), <<"S", "H", "I", "P", "P", "I", "N", "G">>, FALSE),
     Method(<<"b">>, <<"B">>, Amount(<<"0", ".", "0", "0">>), <<"P", "I", "C", "K", "U", "P">>, TRUE),
     Method(<<"c">>, <<"C">>, NoObject, <<"S", "H", "I", "P", "P", "I", "N", "G">>, TRUE),
     Method(Undefined, <<"D">>, Amount(Undefined), <<"P", "I", "C", "K", "U", "P">>, FALSE),
     Method(<<"e">>, <<"E">>, Amount(<<"0", ".", "0", "0">>), <<"S", "H", "I", "P", "P", "I", "N", "G">>, FALSE)}

ShippingMethodLists ==
    {Array(l) : l \in SeqsUpTo(ShippingMethodOptions, MaxMethods)} \cup {NoObject}

\* The methods of the orders: type and selected are what the request reads.
CartMethodOptions == {m \in ShippingMethodOptions : m.id # <<"e">>}

CartMethodLists ==
    {Array(l) : l \in SeqsUpTo(CartMethodOptions, MaxCartMethods)} \cup {NoObject}

OptionalStrings(s) == {Undefined, <<>>, s}

Addresses ==
    {NoObject} \cup
    [firstName : OptionalStrings(<<"J">>), lastName : {Undefined, <<"D">>},
     line1 : {<<"1">>}, line2 : OptionalStrings(<<"2">>), city : {<<>>, <<"X">>},
     state : {<<"C", "A">>}, postalCode : {<<"9", "5", "1", "3", "1">>}, country : {<<"U", "S">>, <<"F", "R">>}]

AmountValues == {Undefined, <<>>, <<"0", ".", "0", "0">>, <<"5", ".", "0", "0">>, <<"0", ".", "0", "0", "1">>}

Order(subtotal, tax, shipping, address, methods, issuers, required) ==
    [checkoutSession |->
        [flags |-> [isShippingAddressRequired |-> required],
         allowedCardIssuers |-> issuers,
         cart |->
            [amounts |->
                [shippingAndHandling |-> Amount(shipping),
                 tax      |-> Amount(tax),
                 subtotal |-> Amount(subtotal),
                 total    |-> Amount(<<"9", ".", "9", "9">>)],
             shippingAddress |-> address,
             shippingMethods |-> methods]]]

DefaultAddress ==
    [firstName |-> <<"J">>, lastName |-> <<"D">>, line1 |-> <<"1">>, line2 |-> <<"2">>,
     city |-> <<"X">>, state |-> <<"C", "A">>, postalCode |-> <<"9", "5", "1", "3", "1">>, country |-> <<"U", "S">>]

\* Orders varying the cart amounts and the shipping methods.
CartOrders ==
    {Order(sub, tax, ship, DefaultAddress, methods,
          Array(<<<<"V", "I", "S", "A">>>>), TRUE) :
        sub \in AmountValues, tax \in AmountValues, ship \in AmountValues,
        methods \in CartMethodLists}

\* Orders varying the shipping address and the shipping-required flag.
AddressOrders ==
    {Order(<<"5", ".", "0", "0">>, <<"0", ".", "0", "0">>, <<"0", ".", "0", "0">>, address, NoObject,
          Array(<<<<"V", "I", "S", "A">>>>), required) :
        address \in Addresses, required \in BOOLEAN}

\* Orders varying the allowed card issuers.
IssuerOrders ==
    {Order(<<"5", ".", "0", "0">>, <<"0", ".", "0", "0">>, <<"0", ".", "0", "0">>, DefaultAddress, NoObject,
          issuers, FALSE) :
        issuers \in IssuerLists}

Orders == CartOrders \cup AddressOrders \cup IssuerOrders

NetworkLists ==
    {Array(l) : l \in SeqsUpTo({"visa", "masterCard", "cartesBancaires", "chinaUnionPay"}, 2)}
    \cup {NoObject}

Contacts ==
    {NoObject} \cup
    [locality : OptionalStrings(<<"X">>),
     administrativeArea : OptionalStrings(<<"N", "Y">>),
     postalCode : OptionalStrings(<<"1", "0", "0", "0", "1">>),
     countryCode : {Undefined, <<>>, <<"U", "S">>, <<"u", "s">>, <<"F", "R">>, <<"f", "r">>, <<"F", "r">>, <<"Z", "Z">>}]

(***************************************************************************)
(* The module keeps no state: a behaviour is one call of one exported      *)
(* function.  fn is the function called, arg the record of its arguments   *)
(* as the caller sees them after the call, engine the JavaScript engine's  *)
(* sort where the call sorts, ret the returned value (a returned object as *)
(* it is, any other value in a record of one field).                       *)
(***************************************************************************)
Init ==
    /\ fn = "none"
    /\ arg = NoObject
    /\ engine = "none"
    /\ ret = NoObject

CallIsZeroAmount ==
    /\ fn = "none"
    /\ \E value \in AmountStrings :
        /\ fn' = "isZeroAmount"
        /\ arg' = [value |-> value]
        /\ engine' = "none"
        /\ ret' = [isZero |-> isZeroAmount(value)]

CallGetSupportedNetworksFromIssuers ==
    /\ fn = "none"
    /\ \E issuers \in IssuerLists :
        /\ fn' = "getSupportedNetworksFromIssuers"
        /\ arg' = [issuers |-> issuers]
        /\ engine' = "none"
        /\ ret' = [validIssuers |-> getSupportedNetworksFromIssuers(issuers)]

\* arg' is the caller's list after the call: sort ran on the spread copy.
CallGetApplePayShippingMethods ==
    /\ fn = "none"
    /\ \E shippingMethods \in ShippingMethodLists, eng \in Engines :
        /\ fn' = "getApplePayShippingMethods"
        /\ arg' = [shippingMethods |-> shippingMethods]
        /\ engine' = eng
        /\ ret' = [applePayShippingMethods |->
                      getApplePayShippingMethods(shippingMethods, eng)]

CallGetMerchantCapabilities ==
    /\ fn = "none"
    /\ \E supportedNetworks \in NetworkLists :
        /\ fn' = "getMerchantCapabilities"
        /\ arg' = [supportedNetworks |-> supportedNetworks]
        /\ engine' = "none"
        /\ ret' = [capabilities |-> getMerchantCapabilities(supportedNetworks)]

CallCreateApplePayRequest ==
    /\ fn = "none"
    /\ \E countryCode \in {<<"U", "S">>}, order \in Orders, eng \in Engines :
        /\ fn' = "createApplePayRequest"
        /\ arg' = [countryCode |-> countryCode, order |-> order]
        /\ engine' = eng
        /\ ret' = createApplePayRequest(countryCode, order, eng)

CallValidateShippingContact ==
    /\ fn = "none"
    /\ \E contact \in Contacts :
        /\ fn' = "validateShippingContact"
        /\ arg' = [contact |-> contact]
        /\ engine' = "none"
        /\ ret' = validateShippingContact(contact)

Next ==
    \/ CallIsZeroAmount
    \/ CallGetSupportedNetworksFromIssuers
    \/ CallGetApplePayShippingMethods
    \/ CallGetMerchantCapabilities
    \/ CallCreateApplePayRequest
    \/ CallValidateShippingContact

Spec == Init /\ [][Next]_vars

(***************************************************************************)
(* Properties.                                                             *)
(***************************************************************************)
Called(name) == fn = name

\* The value of the decimal string rounds to 0.00 at two decimal places:
\* it is a number x with 0 <= x < 0.005 (or negative zero).
RoundsToZero(value) ==
    LET x == parseFloat(value)
    IN  /\ ~x.nan
        /\ \/ x.num = 0
           \/ ~x.neg /\ 1000 * x.num < 5 * Pow10(x.scale)

\* The value of the decimal string is the number zero.
NumericallyZero(value) ==
    LET x == parseFloat(value) IN ~x.nan /\ x.num = 0

OrderCart == arg.order.checkoutSession.cart

\* The first method of the order whose selected flag is set has type PICKUP.
SelectedIsPickup ==
    LET list == OrEmpty(OrderCart.shippingMethods)
    IN  \E i \in 1..Len(list) :
            /\ list[i].selected
            /\ \A j \in 1..(i - 1) : ~list[j].selected
            /\ list[i].type = <<"P", "I", "C", "K", "U", "P">>

LabelRank(label) ==
    CASE label = "Subtotal"  -> 1
      [] label = "Sales Tax" -> 2
      [] label = "Shipping"  -> 3
      [] OTHER               -> 0

HasLineItem(label, amount) ==
    \E i \in 1..Len(ret.lineItems) :
        ret.lineItems[i] = [label |-> label, amount |-> amount]

HasLabel(label) ==
    \E i \in 1..Len(ret.lineItems) : ret.lineItems[i].label = label

LineItemsInOrder ==
    /\ \A i \in 1..Len(ret.lineItems) : LabelRank(ret.lineItems[i].label) > 0
    /\ \A i, j \in 1..Len(ret.lineItems) :
          i < j => LabelRank(ret.lineItems[i].label) < LabelRank(ret.lineItems[j].label)

LineItemAmountsUnchanged ==
    /\ HasLabel("Subtotal")  => HasLineItem("Subtotal", OrderCart.amounts.subtotal.currencyValue)
    /\ HasLabel("Sales Tax") => HasLineItem("Sales Tax", OrderCart.amounts.tax.currencyValue)
    /\ HasLabel("Shipping")  =>
          HasLineItem("Shipping", OrderCart.amounts.shippingAndHandling.currencyValue)

LineItemExamples ==
    LET amounts == OrderCart.amounts
    IN  /\ ( /\ amounts.subtotal.currencyValue = <<"0", ".", "0", "0">>
             /\ amounts.tax.currencyValue = <<"5", ".", "0", "0">>
             /\ amounts.shippingAndHandling.currencyValue = <<"0", ".", "0", "0">>
             /\ ~SelectedIsPickup )
           => ret.lineItems = <<[label |-> "Sales Tax", amount |-> <<"5", ".", "0", "0">>]>>
        /\ (amounts.shippingAndHandling.currencyValue = <<"0", ".", "0", "0">> /\ SelectedIsPickup)
           => HasLineItem("Shipping", <<"0", ".", "0", "0">>)

\* C1 as stated: each line item is present exactly when its amount is present
\* and its value is not the number zero (Shipping also for a selected PICKUP
\* method), in the order Subtotal, Sales Tax, Shipping, with the input amount.
C1_AsStated ==
    Called("createApplePayRequest") =>
        LET amounts == OrderCart.amounts
            sub  == amounts.subtotal.currencyValue
            tax  == amounts.tax.currencyValue
            ship == amounts.shippingAndHandling.currencyValue
        IN  /\ LineItemsInOrder
            /\ LineItemAmountsUnchanged
            /\ HasLabel("Subtotal")  <=> (Truthy(sub) /\ ~NumericallyZero(sub))
            /\ HasLabel("Sales Tax") <=> (Truthy(tax) /\ ~NumericallyZero(tax))
            /\ HasLabel("Shipping")  <=>
                  (Truthy(ship) /\ (~NumericallyZero(ship) \/ SelectedIsPickup))
            /\ LineItemExamples

\* C1 amended: lineItems is a subsequence of [Subtotal, Sales Tax, Shipping]
\* in that order; Subtotal is there iff the subtotal is present and does not
\* round to 0.00 at two decimals, Sales Tax iff the tax is present and does
\* not round to 0.00, Shipping iff the shipping value is present and (does
\* not round to 0.00 or the first selected method has type PICKUP); each item
\* carries the input amount unchanged.
C1_LineItems ==
    Called("createApplePayRequest") =>
        LET amounts == OrderCart.amounts
            sub  == amounts.subtotal.currencyValue
            tax  == amounts.tax.currencyValue
            ship == amounts.shippingAndHandling.currencyValue
        IN  /\ LineItemsInOrder
            /\ LineItemAmountsUnchanged
            /\ HasLabel("Subtotal")  <=> (Truthy(sub) /\ ~RoundsToZero(sub))
            /\ HasLabel("Sales Tax") <=> (Truthy(tax) /\ ~RoundsToZero(tax))
            /\ HasLabel("Shipping")  <=>
                  (Truthy(ship) /\ (~RoundsToZero(ship) \/ SelectedIsPickup))
            /\ LineItemExamples

C1_Witness ==
    /\ Called("createApplePayRequest")
    /\ OrderCart.amounts.subtotal.currencyValue = <<"0", ".", "0", "0", "1">>
    /\ OrderCart.amounts.tax.currencyValue = <<"5", ".", "0", "0">>
    /\ OrderCart.amounts.shippingAndHandling.currencyValue = <<"0", ".", "0", "0">>
    /\ SelectedIsPickup
    /\ ret.lineItems = <<[label |-> "Sales Tax", amount |-> <<"5", ".", "0", "0">>],
                         [label |-> "Shipping", amount |-> <<"0", ".", "0", "0">>]>>

ErrorFields == [i \in 1..Len(ret.errors) |-> ret.errors[i].contactField]

\* The country code is present and its upper-case form is a key of COUNTRY.
Resolves(contact) ==
    /\ Truthy(OptField(contact, "countryCode"))
    /\ toUpperCase(contact.countryCode) \in CountryCodes

ResolvesToUS(contact) ==
    Resolves(contact) /\ toUpperCase(contact.countryCode) = <<"U", "S">>

\* C2: the errors of validateShippingContact are, in this order and with no
\* others: locality if locality is absent or empty, countryCode if the code is
\* absent or does not resolve, administrativeArea if the country resolved to
\* US and administrativeArea is absent or empty, postalCode if postalCode is
\* absent or empty; {} gives locality, countryCode, postalCode.
C2_Errors ==
    Called("validateShippingContact") =>
        /\ ErrorFields =
              (IF ~Truthy(OptField(arg.contact, "locality")) THEN <<"locality">> ELSE <<>>)
              \o (IF ~Resolves(arg.contact) THEN <<"countryCode">> ELSE <<>>)
              \o (IF ResolvesToUS(arg.contact) /\ ~Truthy(OptField(arg.contact, "administrativeArea"))
                  THEN <<"administrativeArea">> ELSE <<>>)
              \o (IF ~Truthy(OptField(arg.contact, "postalCode")) THEN <<"postalCode">> ELSE <<>>)
        /\ \A i \in 1..Len(ret.errors) : ret.errors[i].code = "shippingContactInvalid"
        /\ ~(\E i, j \in 1..Len(ret.errors) :
                /\ ret.errors[i].contactField = "countryCode"
                /\ ret.errors[j].contactField = "administrativeArea")
        /\ (arg.contact = NoObject \/ arg.contact = [locality |-> Undefined, administrativeArea |-> Undefined,
                                             postalCode |-> Undefined,
                                             countryCode |-> Undefined])
           => ErrorFields = <<"locality", "countryCode", "postalCode">>

C2_Witness ==
    /\ Called("validateShippingContact")
    /\ arg.contact = [locality |-> <<"X">>, administrativeArea |-> Undefined,
              postalCode |-> <<"1", "0", "0", "0", "1">>, countryCode |-> <<"U", "S">>]
    /\ ErrorFields = <<"administrativeArea">>

CompleteNonUSContact ==
    /\ Called("validateShippingContact")
    /\ arg.contact # NoObject
    /\ Truthy(arg.contact.locality)
    /\ Truthy(arg.contact.administrativeArea)
    /\ Truthy(arg.contact.postalCode)
    /\ Resolves(arg.contact)
    /\ ~ResolvesToUS(arg.contact)

\* C3 as stated: a complete contact of a known non-US country, in whatever
\* letter case, gets no error and an address equal to the input fields, the
\* country code included.
C3_AsStated ==
    CompleteNonUSContact =>
        /\ ret.errors = <<>>
        /\ ret.shipping_address =
              [city |-> arg.contact.locality, state |-> arg.contact.administrativeArea,
               country_code |-> arg.contact.countryCode,
               postal_code |-> arg.contact.postalCode]

\* C3 amended: a complete contact of a known non-US country, in whatever
\* letter case, gets no error and an address whose city, state and postal_code
\* equal the input fields and whose country_code is the input country code in
\* upper case.
C3_RoundTrip ==
    CompleteNonUSContact =>
        /\ ret.errors = <<>>
        /\ ret.shipping_address =
              [city |-> arg.contact.locality, state |-> arg.contact.administrativeArea,
               country_code |-> toUpperCase(arg.contact.countryCode),
               postal_code |-> arg.contact.postalCode]

C3_Witness ==
    /\ CompleteNonUSContact
    /\ arg.contact.countryCode = <<"f", "r">>
    /\ ret.errors = <<>>
    /\ ret.shipping_address.country_code = <<"F", "R">>

\* issuer.toLowerCase().replace(/_/g, '')
Normalized(issuer) == stripUnderscores(toLowerCase(issuer))

\* The table of the specification: normalized issuer name -> network.
TableNetwork(name) ==
    CASE name = <<"d", "i", "s", "c", "o", "v", "e", "r">>    -> "discover"
      [] name = <<"v", "i", "s", "a">>        -> "visa"
      [] name = <<"m", "a", "s", "t", "e", "r", "c", "a", "r", "d">>  -> "masterCard"
      [] name = <<"a", "m", "e", "x">>        -> "amex"
      [] name = <<"c", "b", "n", "a", "t", "i", "o", "n", "a", "l", "e">> -> "cartesBancaires"
      [] name = <<"m", "a", "e", "s", "t", "r", "o">>     -> "maestro"
      [] name = <<"j", "c", "b">>         -> "jcb"
      [] OTHER                 -> "none"

SevenNetworks ==
    {"discover", "visa", "masterCard", "amex", "cartesBancaires", "maestro", "jcb"}

InSeq(x, seq) == \E i \in 1..Len(seq) : seq[i] = x

\* C4: every issuer that, lower-cased and stripped of underscores, equals an
\* entry of the table is mapped to that entry's network; an issuer that
\* normalizes to cbnationale yields cartesBancaires.
C4_AsStated ==
    Called("getSupportedNetworksFromIssuers") =>
        \A i \in 1..Len(OrEmpty(arg.issuers)) :
            TableNetwork(Normalized(arg.issuers.items[i])) # "none"
            => InSeq(TableNetwork(Normalized(arg.issuers.items[i])), ret.validIssuers)

\* The issuer matches a key of the validNetworks literal of the code.
MatchesKey(issuer) ==
    \E k \in 1..Len(validNetworks) : validNetworks[k].key = Normalized(issuer)

KeyNetwork(issuer) ==
    validNetworks[CHOOSE k \in 1..Len(validNetworks) :
                     validNetworks[k].key = Normalized(issuer)].network

\* C5: the output walks the input in order, drops every issuer that matches
\* no key and emits one network per matching issuer: input order is kept,
\* duplicates stay, the output is never longer than the input, and matching
\* ignores letter case and underscores ([VISA, Master_Card, unknown] gives
\* [visa, masterCard]).
C5_OrderKept ==
    Called("getSupportedNetworksFromIssuers") =>
        LET issuers  == OrEmpty(arg.issuers)
            matching == SelectSeq(issuers, MatchesKey)
        IN  /\ Len(ret.validIssuers) <= Len(issuers)
            /\ Len(ret.validIssuers) = Len(matching)
            /\ \A k \in 1..Len(matching) : ret.validIssuers[k] = KeyNetwork(matching[k])
            /\ ret.validIssuers =
                  getSupportedNetworksFromIssuers(
                      Array([k \in 1..Len(issuers) |-> Normalized(issuers[k])]))
            /\ issuers = <<<<"V", "I", "S", "A">>, <<"M", "a", "s", "t", "e", "r", "_", "C", "a", "r", "d">>, <<"u", "n", "k", "n", "o", "w", "n">>>>
               => ret.validIssuers = <<"visa", "masterCard">>

C5_Witness ==
    /\ Called("getSupportedNetworksFromIssuers")
    /\ arg.issuers = Array(<<<<"J", "C", "B">>, <<"u", "n", "k", "n", "o", "w", "n">>, <<"V", "I", "S", "A">>>>)
    /\ ret.validIssuers = <<"jcb", "visa">>

C5_WitnessDuplicates ==
    /\ Called("getSupportedNetworksFromIssuers")
    /\ arg.issuers = Array(<<<<"V", "I", "S", "A">>, <<"M", "a", "s", "t", "e", "r", "_", "C", "a", "r", "d">>, <<"V", "I", "S", "A">>>>)
    /\ ret.validIssuers = <<"visa", "masterCard", "visa">>

\* C6 as stated: true for "0" and "0.00", false for "0.001" and "abc", false
\* for every decimal string whose value is not zero and for every string that
\* is not a number.
C6_AsStated ==
    Called("isZeroAmount") =>
        /\ arg.value \in {<<"0">>, <<"0", ".", "0", "0">>} => ret.isZero
        /\ arg.value \in {<<"0", ".", "0", "0", "1">>, <<"a", "b", "c">>} => ~ret.isZero
        /\ ~NumericallyZero(arg.value) => ~ret.isZero

\* C6 amended: isZeroAmount is true for "0", "0.00" and "0.001" and false for
\* "abc"; it is true exactly for the strings whose leading number x rounds to
\* 0.00 at two decimals without a sign (0 <= x < 0.005, or -0), so it is false
\* for every value of magnitude 0.005 or more, for every negative non-zero
\* value and for every string that does not start with a number.
C6_RoundsToZero ==
    Called("isZeroAmount") =>
        /\ arg.value \in {<<"0">>, <<"0", ".", "0", "0">>, <<"0", ".", "0", "0", "1">>} => ret.isZero
        /\ arg.value = <<"a", "b", "c">> => ~ret.isZero
        /\ ret.isZero <=> RoundsToZero(arg.value)
        /\ parseFloat(arg.value).nan => ~ret.isZero

C6_Witness ==
    /\ Called("isZeroAmount")
    /\ arg.value = <<"0", ".", "0", "0", "1">>
    /\ ret.isZero

OrderAddress == OrderCart.shippingAddress

\* C7: the request's shippingContact is the empty record when the order has no
\* shipping address or the first name is absent or empty, and otherwise the
\* mapped contact: givenName and familyName from first and last name,
\* addressLines [line1, line2] with line2 kept when empty or undefined,
\* locality, administrativeArea and postalCode copied, country and countryCode
\* both the address's country.
C7_ShippingContact ==
    Called("createApplePayRequest") =>
        IF OrderAddress = NoObject \/ OrderAddress.firstName \in {Undefined, Null, <<>>}
        THEN ret.shippingContact = EmptyObject
        ELSE /\ ret.shippingContact =
                   [givenName          |-> OrderAddress.firstName,
                    familyName         |-> OrderAddress.lastName,
                    addressLines       |-> <<OrderAddress.line1, OrderAddress.line2>>,
                    locality           |-> OrderAddress.city,
                    administrativeArea |-> OrderAddress.state,
                    postalCode         |-> OrderAddress.postalCode,
                    country            |-> OrderAddress.country,
                    countryCode        |-> OrderAddress.country]
             /\ ret.shippingContact.givenName # <<>>
             /\ Len(ret.shippingContact.addressLines) = 2

C7_Witness ==
    /\ Called("createApplePayRequest")
    /\ OrderAddress # NoObject
    /\ OrderAddress.firstName = <<"J">>
    /\ OrderAddress.line2 = Undefined
    /\ ret.shippingContact # EmptyObject
    /\ ret.shippingContact.addressLines = <<<<"1">>, Undefined>>
    /\ ret.shippingContact.countryCode = <<"F", "R">>

C7_WitnessEmpty ==
    /\ Called("createApplePayRequest")
    /\ OrderAddress # NoObject
    /\ OrderAddress.firstName = <<>>
    /\ OrderAddress.city = <<"X">>
    /\ ret.shippingContact = EmptyObject

IndexPermutations(n) == {p \in [1..n -> 1..n] : \A i, j \in 1..n : i # j => p[i] # p[j]}

\* {amount, detail, identifier, label} of a method as C8 describes it.
MappedAsStated(method) ==
    [amount     |-> IF method.amount = NoObject
                       \/ method.amount.currencyValue \in {Undefined, Null, <<>>}
                    THEN <<"0", ".", "0", "0">> ELSE method.amount.currencyValue,
     detail     |-> method.type,
     identifier |-> IF method.id \in {Undefined, Null} THEN <<>> ELSE method.id,
     label      |-> method.label]

\* C8: the output has the length of the input and is a reordering of it
\* mapped element by element; a method marked selected is the first element
\* and the non-selected methods keep their input order; the caller's list is
\* left as it was.
C8_AsStated ==
    Called("getApplePayShippingMethods") =>
        LET input  == OrEmpty(arg.shippingMethods)
            output == ret.applePayShippingMethods
            n      == Len(input)
        IN  /\ Len(output) = n
            /\ \E p \in IndexPermutations(n) :
                  /\ \A i \in 1..n : output[i] = MappedAsStated(input[p[i]])
                  /\ (\E i \in 1..n : input[i].selected) => input[p[1]].selected
                  /\ \A i, j \in 1..n :
                        (i < j /\ ~input[p[i]].selected /\ ~input[p[j]].selected)
                        => p[i] < p[j]

\* C9: the normalized address has the input locality, administrativeArea and
\* postalCode as given and the resolved country code, or null whenever the
\* country code does not resolve, absent or unknown.
C9_AsStated ==
    Called("validateShippingContact") =>
        ret.shipping_address =
            [city         |-> OptField(arg.contact, "locality"),
             state        |-> OptField(arg.contact, "administrativeArea"),
             country_code |-> IF Resolves(arg.contact)
                              THEN toUpperCase(arg.contact.countryCode)
                              ELSE Null,
             postal_code  |-> OptField(arg.contact, "postalCode")]

\* C10: whatever the order's allowedCardIssuers, merchantCapabilities of the
\* request is exactly [supports3DS, supportsCredit, supportsDebit] and
\* supportedNetworks is a list over the seven networks of the table.
C10_NoEMV ==
    Called("createApplePayRequest") =>
        /\ ret.merchantCapabilities = <<"supports3DS", "supportsCredit", "supportsDebit">>
        /\ ~InSeq("supportsEMV", ret.merchantCapabilities)
        /\ \A i \in 1..Len(ret.supportedNetworks) : ret.supportedNetworks[i] \in SevenNetworks

C10_Witness ==
    /\ Called("createApplePayRequest")
    /\ InSeq(<<"c", "h", "i", "n", "a", "_", "u", "n", "i", "o", "n", "_", "p", "a", "y">>, OrEmpty(arg.order.checkoutSession.allowedCardIssuers))
    /\ InSeq(<<"V", "I", "S", "A">>, OrEmpty(arg.order.checkoutSession.allowedCardIssuers))
    /\ ret.supportedNetworks = <<"visa">>
    /\ ret.merchantCapabilities = <<"supports3DS", "supportsCredit", "supportsDebit">>

====
